---- MODULE Spec2Model ----
(***************************************************************************)
(* The application state machine of App (idle -> generating -> analyzing   *)
(* -> complete), its two asynchronous AI calls and the phrase-rotation     *)
(* timer.  Every handler and every continuation of processSearch between   *)
(* two awaits is one atomic action (single-threaded event loop).           *)
(*                                                                         *)
(* Encoding: a nullable value is a sequence of length 0 (null/undefined)   *)
(* or 1 (the value); a query string is a sequence of characters.           *)
(***************************************************************************)
EXTENDS Integers, Sequences, FiniteSets, TLC

VARIABLES query, status, data, error, analysisPhrase, interval, calls, lastEvent,
          segment, widget

\* the state of App
appVars == <<query, status, data, error, analysisPhrase, interval, calls, lastEvent>>
\* the prop passed to WidgetEngine and the element it returned
widgetVars == <<segment, widget>>
vars == <<query, status, data, error, analysisPhrase, interval, calls, lastEvent,
          segment, widget>>

Null == <<>>
Some(x) == <<x>>

\* ---- bounds ------------------------------------------------------------
\* number of accepted submissions (processSearch invocations past the guard)
MaxSubmissions == 2
\* longest stats array of a segment handed to WidgetEngine
MaxStats == 2

\* ---- program constants -------------------------------------------------
SUGGESTIONS ==
  { <<"E","c","o","s","y","s","t","e","m"," ","o","f"," ","a"," ","C","l","o","u","d"," ","C","i","t","y">>,
    <<"H","i","d","d","e","n"," ","G","e","o","m","e","t","r","y"," ","o","f"," ","a"," ","F","a","i","r","y"," ","R","i","n","g">>,
    <<"A","n","a","t","o","m","y"," ","o","f"," ","a"," ","D","r","a","g","o","n">> }

ANALYSIS_PHRASES ==
  << "Scanning visual topography...",
     "Identifying key data nodes...",
     "Synthesizing contextual widgets...",
     "Cross-referencing knowledge bases...",
     "Generating immersive annotations..." >>

FallbackMessage == "Something went wrong. Please check your network and try again."

AppStatus == {"idle", "generating", "analyzing", "complete"}

\* ---- inputs ------------------------------------------------------------
\* what the user may type into the search box
TypedQueries == { <<>>, <<" ">>, <<" ","X"," ">> }

\* results of generateInfographic
GeneratedImages ==
  { [base64 |-> "A", mimeType |-> "image/png", groundingUrls |-> <<>>],
    [base64 |-> "B", mimeType |-> "image/png", groundingUrls |-> <<>>] }

Seg1 == [label |-> "s1", format |-> "stats"]
Seg2 == [label |-> "s2", format |-> "mini"]

\* results of analyzeImageRegions
AnalysisResults ==
  { [segments |-> <<>>],
    [segments |-> <<Seg1, Seg2>>],
    [segments |-> <<Seg2, Seg1, Seg1>>] }

\* rejections of either call: message undefined, empty, or a text
Errors ==
  { [message |-> Null], [message |-> Some("")], [message |-> Some("quota exceeded")] }

\* ---- helpers -----------------------------------------------------------
IsWhitespace(c) == c = " "

RECURSIVE trimStart(_)
trimStart(s) ==
  IF s = <<>> THEN <<>>
  ELSE IF IsWhitespace(Head(s)) THEN trimStart(Tail(s)) ELSE s

RECURSIVE trimEnd(_)
trimEnd(s) ==
  IF s = <<>> THEN <<>>
  ELSE IF IsWhitespace(s[Len(s)]) THEN trimEnd(SubSeq(s, 1, Len(s) - 1)) ELSE s

\* String.prototype.trim
trim(s) == trimEnd(trimStart(s))

\* JavaScript truthiness of a (possibly undefined) string
Truthy(v) == v # Null /\ v[1] # ""

ErrorText_nullish(err) ==
  IF err.message # Null THEN err.message[1] ELSE FallbackMessage

\* err.message || '<fallback>'
ErrorText(err) ==
  IF Truthy(err.message) THEN err.message[1] ELSE FallbackMessage

EffectInterval_noCleanup(old, new) ==
  IF old = new THEN interval
  ELSE IF new = "analyzing" THEN Some(0)
  ELSE interval

\* useEffect([status]): the cleanup of the previous effect runs and the effect
\* re-runs only when status changed between renders
EffectInterval(old, new) ==
  IF old = new THEN interval
  ELSE IF new = "analyzing" THEN Some(0)
  ELSE Null

Pending == {"awaitGenerate", "awaitAnalyze"}
InFlight == {p \in 1..Len(calls) : calls[p].pc \in Pending}

\* a processSearch invocation that has returned: its closure is dead
Returned == [searchQuery |-> <<>>, pc |-> "returned", image |-> Null, superseded |-> FALSE]

\* the handler or continuation that ran last: its kind, the processSearch
\* invocation it belongs to, its input and the AI call it invoked (if any);
\* for a user event, the status of the view it was issued from; for the
\* continuation after analysis, the image held by its closure
Event(kind, call, arg) ==
  [kind |-> kind, call |-> call, arg |-> arg, invoked |-> Null,
   from |-> Null, image |-> Null]

UserEvent(kind, arg) == [Event(kind, 0, arg) EXCEPT !.from = Some(status)]

Invoking(event, fn, args) ==
  [event EXCEPT !.invoked = Some([fn |-> fn, args |-> args])]

\* ---- initial state -----------------------------------------------------
Init ==
  /\ query = <<>>
  /\ status = "idle"
  /\ data = Null
  /\ error = Null
  /\ analysisPhrase = ANALYSIS_PHRASES[1]
  /\ interval = Null
  /\ calls = <<>>
  /\ lastEvent = Event("init", 0, Null)
  /\ segment = Null
  /\ widget = Null

\* ---- handlers ----------------------------------------------------------
\* <input onChange>, rendered only in the idle view
onChange(v) ==
  /\ status = "idle"
  /\ query' = v
  /\ lastEvent' = UserEvent("onChange", Some(v))
  /\ UNCHANGED <<status, data, error, analysisPhrase, interval, calls>>

processSearch_noTrim(searchQuery) ==
  IF searchQuery = <<>>
  THEN UNCHANGED <<status, data, error, analysisPhrase, interval, calls>>
  ELSE /\ Len(calls) < MaxSubmissions
       /\ status' = "generating"
       /\ error' = Null
       /\ data' = Null
       /\ interval' = EffectInterval(status, "generating")
       /\ calls' = Append(calls, [searchQuery |-> searchQuery,
                                  pc |-> "awaitGenerate",
                                  image |-> Null,
                                  superseded |-> FALSE])
       /\ UNCHANGED analysisPhrase

processSearch_keepError(searchQuery) ==
  IF trim(searchQuery) = <<>>
  THEN UNCHANGED <<status, data, error, analysisPhrase, interval, calls>>
  ELSE /\ Len(calls) < MaxSubmissions
       /\ status' = "generating"
       /\ data' = Null
       /\ interval' = EffectInterval(status, "generating")
       /\ calls' = Append(calls, [searchQuery |-> searchQuery,
                                  pc |-> "awaitGenerate",
                                  image |-> Null,
                                  superseded |-> FALSE])
       /\ UNCHANGED <<error, analysisPhrase>>

\* processSearch up to its first await
processSearch(searchQuery) ==
  IF trim(searchQuery) = <<>>
  THEN UNCHANGED <<status, data, error, analysisPhrase, interval, calls>>
  ELSE /\ Len(calls) < MaxSubmissions
       /\ status' = "generating"
       /\ error' = Null
       /\ data' = Null
       /\ interval' = EffectInterval(status, "generating")
       /\ calls' = Append(calls, [searchQuery |-> searchQuery,
                                  pc |-> "awaitGenerate",
                                  image |-> Null,
                                  superseded |-> FALSE])
       /\ UNCHANGED analysisPhrase

\* the event of a handler that called processSearch(searchQuery)
Submitted(kind, searchQuery) ==
  IF Len(calls') > Len(calls)
  THEN Invoking([UserEvent(kind, Some(searchQuery)) EXCEPT !.call = Len(calls')],
                "generateInfographic", <<searchQuery>>)
  ELSE UserEvent(kind, Some(searchQuery))

\* <form onSubmit>, rendered only in the idle view
handleSearch ==
  /\ status = "idle"
  /\ processSearch(query)
  /\ lastEvent' = Submitted("handleSearch", query)
  /\ UNCHANGED query

\* suggestion pill, rendered only in the idle view
handleSuggestionClick(suggestion) ==
  /\ status = "idle"
  /\ query' = suggestion
  /\ processSearch(suggestion)
  /\ lastEvent' = Submitted("handleSuggestionClick", suggestion)

handleReset_keepQuery ==
  /\ status # "idle"
  /\ data' = Null
  /\ status' = "idle"
  /\ error' = Null
  /\ interval' = EffectInterval(status, "idle")
  /\ calls' = [p \in 1..Len(calls) |->
                 IF calls[p].pc \in Pending
                 THEN [calls[p] EXCEPT !.superseded = TRUE] ELSE calls[p]]
  /\ lastEvent' = UserEvent("handleReset", Null)
  /\ UNCHANGED <<query, analysisPhrase>>

\* "New Search" button, rendered whenever status is not idle
handleReset ==
  /\ status # "idle"
  /\ data' = Null
  /\ status' = "idle"
  /\ query' = <<>>
  /\ error' = Null
  /\ interval' = EffectInterval(status, "idle")
  /\ calls' = [p \in 1..Len(calls) |->
                 IF calls[p].pc \in Pending
                 THEN [calls[p] EXCEPT !.superseded = TRUE] ELSE calls[p]]
  /\ lastEvent' = UserEvent("handleReset", Null)
  /\ UNCHANGED analysisPhrase

\* ---- continuations of processSearch -----------------------------------
generateResolved_stateQuery(p, image) ==
  /\ calls[p].pc = "awaitGenerate"
  /\ data' = Some([image |-> image, analysis |-> Null])
  /\ status' = "analyzing"
  /\ analysisPhrase' = ANALYSIS_PHRASES[1]
  /\ interval' = EffectInterval(status, "analyzing")
  /\ calls' = [calls EXCEPT ![p].pc = "awaitAnalyze",
                            ![p].image = Some(image)]
  /\ lastEvent' = Invoking(Event("generateResolved", p, Some(image)),
                           "analyzeImageRegions", <<query, image.base64>>)
  /\ UNCHANGED <<query, error>>

generateResolved_keepPhrase(p, image) ==
  /\ calls[p].pc = "awaitGenerate"
  /\ data' = Some([image |-> image, analysis |-> Null])
  /\ status' = "analyzing"
  /\ interval' = EffectInterval(status, "analyzing")
  /\ calls' = [calls EXCEPT ![p].pc = "awaitAnalyze",
                            ![p].image = Some(image)]
  /\ lastEvent' = Invoking(Event("generateResolved", p, Some(image)),
                           "analyzeImageRegions", <<calls[p].searchQuery, image.base64>>)
  /\ UNCHANGED <<query, error, analysisPhrase>>

\* await generateInfographic(searchQuery) resolves with image
generateResolved(p, image) ==
  /\ calls[p].pc = "awaitGenerate"
  /\ data' = Some([image |-> image, analysis |-> Null])
  /\ status' = "analyzing"
  /\ analysisPhrase' = ANALYSIS_PHRASES[1]
  /\ interval' = EffectInterval(status, "analyzing")
  /\ calls' = [calls EXCEPT ![p].pc = "awaitAnalyze",
                            ![p].image = Some(image)]
  /\ lastEvent' = Invoking(Event("generateResolved", p, Some(image)),
                           "analyzeImageRegions", <<calls[p].searchQuery, image.base64>>)
  /\ UNCHANGED <<query, error>>

catch_keepStatus(p, err) ==
  /\ error' = Some(ErrorText(err))
  /\ calls' = [calls EXCEPT ![p] = Returned]
  /\ UNCHANGED <<query, status, data, analysisPhrase, interval>>

catch_clearQuery(p, err) ==
  /\ error' = Some(ErrorText(err))
  /\ status' = "idle"
  /\ query' = <<>>
  /\ interval' = EffectInterval(status, "idle")
  /\ calls' = [calls EXCEPT ![p] = Returned]
  /\ UNCHANGED <<data, analysisPhrase>>

\* the catch block
catch(p, err) ==
  /\ error' = Some(ErrorText(err))
  /\ status' = "idle"
  /\ interval' = EffectInterval(status, "idle")
  /\ calls' = [calls EXCEPT ![p] = Returned]
  /\ UNCHANGED <<query, data, analysisPhrase>>

\* await generateInfographic(searchQuery) rejects with err
generateRejected(p, err) ==
  /\ calls[p].pc = "awaitGenerate"
  /\ catch(p, err)
  /\ lastEvent' = Event("generateRejected", p, Some(err))

analyzeResolved_fromState(p, analysis) ==
  /\ calls[p].pc = "awaitAnalyze"
  /\ data' = IF data = Null THEN Null
             ELSE Some([image |-> data[1].image, analysis |-> Some(analysis)])
  /\ status' = "complete"
  /\ interval' = EffectInterval(status, "complete")
  /\ calls' = [calls EXCEPT ![p] = Returned]
  /\ lastEvent' = [Event("analyzeResolved", p, Some(analysis)) EXCEPT !.image = calls[p].image]
  /\ UNCHANGED <<query, error, analysisPhrase>>

\* await analyzeImageRegions(searchQuery, image.base64) resolves with analysis
analyzeResolved(p, analysis) ==
  /\ calls[p].pc = "awaitAnalyze"
  /\ data' = Some([image |-> calls[p].image[1], analysis |-> Some(analysis)])
  /\ status' = "complete"
  /\ interval' = EffectInterval(status, "complete")
  /\ calls' = [calls EXCEPT ![p] = Returned]
  /\ lastEvent' = [Event("analyzeResolved", p, Some(analysis)) EXCEPT !.image = calls[p].image]
  /\ UNCHANGED <<query, error, analysisPhrase>>

\* await analyzeImageRegions(searchQuery, image.base64) rejects with err
analyzeRejected(p, err) ==
  /\ calls[p].pc = "awaitAnalyze"
  /\ catch(p, err)
  /\ lastEvent' = Event("analyzeRejected", p, Some(err))

\* the setInterval callback of the phrase effect
intervalTick ==
  /\ interval # Null
  /\ interval' = Some((interval[1] + 1) % Len(ANALYSIS_PHRASES))
  /\ analysisPhrase' = ANALYSIS_PHRASES[interval'[1] + 1]
  /\ lastEvent' = Event("intervalTick", 0, Null)
  /\ UNCHANGED <<query, status, data, error, calls>>

Next ==
  \/ \E v \in TypedQueries : onChange(v) /\ UNCHANGED widgetVars
  \/ handleSearch /\ UNCHANGED widgetVars
  \/ \E s \in SUGGESTIONS : handleSuggestionClick(s) /\ UNCHANGED widgetVars
  \/ handleReset /\ UNCHANGED widgetVars
  \/ \E p \in 1..Len(calls), image \in GeneratedImages :
       generateResolved(p, image) /\ UNCHANGED widgetVars
  \/ \E p \in 1..Len(calls), err \in Errors :
       generateRejected(p, err) /\ UNCHANGED widgetVars
  \/ \E p \in 1..Len(calls), analysis \in AnalysisResults :
       analyzeResolved(p, analysis) /\ UNCHANGED widgetVars
  \/ \E p \in 1..Len(calls), err \in Errors :
       analyzeRejected(p, err) /\ UNCHANGED widgetVars
  \/ intervalTick /\ UNCHANGED widgetVars

Spec == Init /\ [][Next]_vars

\* the promise awaited by invocation p settles (resolves or rejects)
Settle(p) ==
  /\ p \in 1..Len(calls)
  /\ UNCHANGED widgetVars
  /\ \/ \E image \in GeneratedImages : generateResolved(p, image)
     \/ \E err \in Errors : generateRejected(p, err)
     \/ \E analysis \in AnalysisResults : analyzeResolved(p, analysis)
     \/ \E err \in Errors : analyzeRejected(p, err)

\* every generateInfographic and analyzeImageRegions call eventually settles
LiveSpec ==
  /\ Init
  /\ [][Next]_vars
  /\ \A p \in 1..MaxSubmissions : WF_vars(Settle(p))

\* ======================================================================
\* Widget rendering engine
\* ======================================================================
\* segment.format values: the four of SegmentFormat and two unrecognized ones
Formats == {"mini", "compact", "stats", "detailed", "timeline", ""}

Stat1 == [label |-> "Height", value |-> "10m"]
Stat2 == [label |-> "Mass", value |-> "2t"]

RECURSIVE SeqsUpTo(_, _)
\* the sequences over S of length at most n
SeqsUpTo(S, n) ==
  IF n = 0 THEN { <<>> }
  ELSE LET shorter == SeqsUpTo(S, n - 1)
       IN  shorter \cup { Append(q, x) : q \in shorter, x \in S }

\* segment.stats: absent, or an array of StatItem
StatsValues == { Null } \cup { Some(q) : q \in SeqsUpTo({Stat1, Stat2}, MaxStats) }

\* the segments handed to WidgetEngine
Segments ==
  [ label : {"s1"}, format : Formats, description : {"d1"},
    category : {"data"}, icon : {Null, Some("*")}, stats : StatsValues ]

\* a || b for a possibly absent string a
OrElse(a, b) == IF Truthy(a) THEN a[1] ELSE b

MiniWidget(s) ==
  [component |-> "MiniWidget", icon |-> OrElse(s.icon, "sparkles"), label |-> s.label]

CompactWidget(s) ==
  [component |-> "CompactWidget", icon |-> OrElse(s.icon, "magnifier"),
   category |-> OrElse(Some(s.category), "Concept"), label |-> s.label,
   description |-> s.description]

StatsWidget_placeholderIfAbsent(s) ==
  [component |-> "StatsWidget", icon |-> OrElse(s.icon, "chart"), label |-> s.label,
   tag |-> "Data",
   grid |-> IF s.stats = Null THEN <<>>
            ELSE [i \in 1..Len(s.stats[1]) |->
                    [value |-> s.stats[1][i].value, label |-> s.stats[1][i].label]],
   placeholder |-> s.stats = Null,
   description |-> s.description]

StatsWidget(s) ==
  [component |-> "StatsWidget", icon |-> OrElse(s.icon, "chart"), label |-> s.label,
   tag |-> "Data",
   grid |-> IF s.stats = Null THEN <<>>
            ELSE [i \in 1..Len(s.stats[1]) |->
                    [value |-> s.stats[1][i].value, label |-> s.stats[1][i].label]],
   placeholder |-> (s.stats = Null \/ Len(s.stats[1]) = 0),
   description |-> s.description]

DetailedWidget(s) ==
  [component |-> "DetailedWidget", category |-> OrElse(Some(s.category), "Deep Dive"),
   icon |-> OrElse(s.icon, "rocket"), label |-> s.label,
   description |-> s.description,
   strip |-> IF s.stats # Null /\ Len(s.stats[1]) > 0
             THEN Some([i \in 1..Len(s.stats[1]) |->
                          [label |-> s.stats[1][i].label, value |-> s.stats[1][i].value]])
             ELSE Null]

WidgetEngine_noDefault(s) ==
  CASE s.format = "mini" -> MiniWidget(s)
    [] s.format = "stats" -> StatsWidget(s)
    [] s.format = "detailed" -> DetailedWidget(s)
    [] s.format = "compact" -> CompactWidget(s)
    [] OTHER -> [component |-> "none"]

\* switch (segment.format)
WidgetEngine(s) ==
  CASE s.format = "mini" -> MiniWidget(s)
    [] s.format = "stats" -> StatsWidget(s)
    [] s.format = "detailed" -> DetailedWidget(s)
    [] OTHER -> CompactWidget(s)

\* a segment is handed to the engine
WidgetInit ==
  /\ query = <<>>
  /\ status = "idle"
  /\ data = Null
  /\ error = Null
  /\ analysisPhrase = ANALYSIS_PHRASES[1]
  /\ interval = Null
  /\ calls = <<>>
  /\ lastEvent = Event("init", 0, Null)
  /\ segment \in { Some(s) : s \in Segments }
  /\ widget = Null

\* <WidgetEngine segment={segment} /> is rendered
render ==
  /\ widget = Null
  /\ widget' = Some(WidgetEngine(segment[1]))
  /\ UNCHANGED <<segment, query, status, data, error, analysisPhrase, interval, calls, lastEvent>>

WidgetNext == render

WidgetSpec == WidgetInit /\ [][WidgetNext]_vars

\* ======================================================================
\* Properties
\* ======================================================================
Completions == {"generateResolved", "generateRejected", "analyzeResolved", "analyzeRejected"}
Rejections == {"generateRejected", "analyzeRejected"}
Submissions == {"handleSearch", "handleSuggestionClick"}

\* C1: a completion of a generateInfographic or analyzeImageRegions call whose
\* pipeline was started before the latest reset changes none of status, data
\* and error.
C1_StaleCompletionIgnored ==
  [][ (lastEvent'.kind \in Completions /\ calls[lastEvent'.call].superseded)
        => UNCHANGED <<status, data, error>> ]_vars

\* C2: after analyzeImageRegions fails (generation having succeeded), status
\* is idle, data is null and error is the displayed error string.
C2_AnalysisFailureDiscardsImage ==
  lastEvent.kind = "analyzeRejected"
    => /\ status = "idle"
       /\ data = Null
       /\ error = Some(ErrorText(lastEvent.arg[1]))

\* C3: at most one processSearch invocation has an unresolved
\* generateInfographic or analyzeImageRegions call.
C3_AtMostOneInFlight == Cardinality(InFlight) <= 1

\* C4: reset from generating, analyzing or complete yields exactly
\* status = idle, data = null, query = '' and error = null.
C4_ResetYieldsInitial ==
  (lastEvent.kind = "handleReset" /\ lastEvent.from \in {Some("generating"), Some("analyzing"), Some("complete")})
    => /\ status = "idle"
       /\ data = Null
       /\ query = <<>>
       /\ error = Null

C4_Witness ==
  /\ lastEvent.kind = "handleReset"
  /\ lastEvent.from = Some("analyzing")
  /\ status = "idle"
  /\ calls # <<>>

\* C5: analyzeImageRegions is invoked only by the continuation of a
\* successful generateInfographic of the same pipeline, with the submitted
\* query and the base64 of the image generation returned; a pipeline whose
\* generation failed has returned without invoking it.
C5_AnalysisAfterGeneration ==
  /\ (lastEvent.invoked # Null /\ lastEvent.invoked[1].fn = "analyzeImageRegions")
       => /\ lastEvent.kind = "generateResolved"
          /\ calls[lastEvent.call].pc = "awaitAnalyze"
          /\ calls[lastEvent.call].image = lastEvent.arg
          /\ lastEvent.invoked[1].args =
               <<calls[lastEvent.call].searchQuery, lastEvent.arg[1].base64>>
  /\ lastEvent.kind = "generateResolved"
       => (lastEvent.invoked # Null /\ lastEvent.invoked[1].fn = "analyzeImageRegions")
  /\ lastEvent.kind = "generateRejected"
       => (lastEvent.invoked = Null /\ calls[lastEvent.call] = Returned)
  /\ \A p \in 1..Len(calls) :
       /\ calls[p].pc = "awaitAnalyze" <=> calls[p].image # Null
       /\ calls[p].pc \in Pending => trim(calls[p].searchQuery) # <<>>

C5_Witness ==
  /\ lastEvent.kind = "generateResolved"
  /\ lastEvent.invoked # Null
  /\ lastEvent.invoked[1].args[1] # query

\* C6: submitting from idle a query that is non-empty after trimming sets
\* status = generating, error = null and data = null in the submission step,
\* while the generateInfographic call it made is still unresolved.
C6_SubmitEntersGenerating ==
  (lastEvent.kind \in Submissions /\ lastEvent.from = Some("idle") /\ trim(lastEvent.arg[1]) # <<>>)
    => /\ status = "generating"
       /\ error = Null
       /\ data = Null
       /\ lastEvent.call = Len(calls)
       /\ calls[lastEvent.call].pc = "awaitGenerate"
       /\ lastEvent.invoked =
            Some([fn |-> "generateInfographic", args |-> <<lastEvent.arg[1]>>])

C6_Witness ==
  /\ lastEvent.kind = "handleSearch"
  /\ trim(lastEvent.arg[1]) # <<>>
  /\ lastEvent.arg[1] # trim(lastEvent.arg[1])
  /\ lastEvent.call = 2
  /\ status = "generating"

\* C7: after every successful generateInfographic result A, status is
\* analyzing, data = {image: A, analysis: null} and the status phrase is the
\* first phrase of ANALYSIS_PHRASES.
C7_GenerationSuccessEntersAnalyzing ==
  lastEvent.kind = "generateResolved"
    => /\ status = "analyzing"
       /\ data = Some([image |-> lastEvent.arg[1], analysis |-> Null])
       /\ analysisPhrase = ANALYSIS_PHRASES[1]

C7_Witness ==
  /\ lastEvent.kind = "generateResolved"
  /\ lastEvent.call = 2
  /\ status = "analyzing"
  /\ data # Null

\* C8: after every successful analyzeImageRegions result, status is complete,
\* data.image is the image the same pipeline's generation produced and
\* data.analysis.segments is the returned segments array, element for element.
C8_AnalysisSuccessCompletes ==
  lastEvent.kind = "analyzeResolved"
    => /\ status = "complete"
       /\ data # Null
       /\ data[1].analysis # Null
       /\ Len(data[1].analysis[1].segments) = Len(lastEvent.arg[1].segments)
       /\ \A i \in 1..Len(lastEvent.arg[1].segments) :
            data[1].analysis[1].segments[i] = lastEvent.arg[1].segments[i]
       /\ Some(data[1].image) = lastEvent.image

C8_Witness ==
  /\ lastEvent.kind = "analyzeResolved"
  /\ status = "complete"
  /\ Len(lastEvent.arg[1].segments) = 3
  /\ data # Null

\* C9: after generateInfographic fails with a message m, status is idle,
\* data is null and error = m.
C9_GenerationFailure ==
  (lastEvent.kind = "generateRejected" /\ Truthy(lastEvent.arg[1].message))
    => /\ status = "idle"
       /\ data = Null
       /\ error = lastEvent.arg[1].message

\* C10: after a failure of either AI call, status is idle and error is the
\* failure's message when it carries one (a non-empty message) and the fixed
\* fallback string otherwise; it is never null or empty.
C10_ErrorString ==
  lastEvent.kind \in Rejections
    => /\ status = "idle"
       /\ error # Null
       /\ error[1] # ""
       /\ error[1] = (IF lastEvent.arg[1].message \in {Null, Some("")}
                      THEN "Something went wrong. Please check your network and try again."
                      ELSE lastEvent.arg[1].message[1])

C10_Witness ==
  /\ lastEvent.kind = "analyzeRejected"
  /\ lastEvent.arg[1].message = Some("")
  /\ status = "idle"
  /\ error # Null

C12_BlankSubmitIsNoOp ==
  [][ (lastEvent'.kind \in Submissions /\ trim(lastEvent'.arg[1]) = <<>>)
        => /\ UNCHANGED <<status, data, error, analysisPhrase, interval, calls>>
           /\ lastEvent'.invoked = Null ]_vars

C12_Witness ==
  /\ lastEvent.kind = "handleSearch"
  /\ lastEvent.arg[1] # <<>>
  /\ trim(lastEvent.arg[1]) = <<>>
  /\ lastEvent.invoked = Null
  /\ error # Null

\* C13: the phrase-rotation timer is registered exactly while status is
\* analyzing, so a timer tick happens only with status = analyzing and never
\* changes the status phrase in idle, generating or complete.
C13_TimerOnlyWhileAnalyzing ==
  /\ interval # Null <=> status = "analyzing"
  /\ lastEvent.kind = "intervalTick" => status = "analyzing"

C13_Witness ==
  /\ lastEvent.kind = "analyzeRejected"
  /\ status = "idle"
  /\ interval = Null
  /\ analysisPhrase # ANALYSIS_PHRASES[1]

NextPhrase(phrase) ==
  LET i == CHOOSE k \in 1..Len(ANALYSIS_PHRASES) : ANALYSIS_PHRASES[k] = phrase
  IN  ANALYSIS_PHRASES[(i % Len(ANALYSIS_PHRASES)) + 1]

\* C14: while status is analyzing, every timer tick advances the displayed
\* phrase to the next phrase of ANALYSIS_PHRASES, wrapping from the last to
\* the first, so that k ticks after the phrase was reset to the first phrase
\* it is ANALYSIS_PHRASES[k mod 5].
C14_TickAdvancesPhrase ==
  [][ lastEvent'.kind = "intervalTick" => analysisPhrase' = NextPhrase(analysisPhrase) ]_vars

\* C15: failures are never retried: generateInfographic is invoked only by
\* an accepted submission, once, for the invocation that submission starts;
\* analyzeImageRegions only by the continuation of that invocation's resolved
\* generation; a failed invocation has returned; and the step after a failure
\* invokes an AI call only if it is a new submission.
C15_NoAutomaticRetry ==
  [][ /\ lastEvent'.invoked # Null
          => \/ /\ lastEvent'.kind \in Submissions
                /\ lastEvent'.invoked[1].fn = "generateInfographic"
                /\ lastEvent'.call = Len(calls) + 1
             \/ /\ lastEvent'.kind = "generateResolved"
                /\ lastEvent'.invoked[1].fn = "analyzeImageRegions"
                /\ calls[lastEvent'.call].pc = "awaitGenerate"
      /\ lastEvent'.kind \in Rejections => calls'[lastEvent'.call] = Returned
      /\ \A p \in 1..Len(calls) : calls[p] = Returned => calls'[p] = Returned
      /\ (lastEvent.kind \in Rejections /\ lastEvent'.invoked # Null)
          => lastEvent'.kind \in Submissions ]_vars

\* C18: status and data are consistent: generating implies data = null;
\* analyzing implies data non-null with analysis = null; complete implies
\* data non-null with analysis non-null; idle implies data = null.
C18_StatusDataConsistent ==
  /\ status = "generating" => data = Null
  /\ status = "analyzing" => (data # Null /\ data[1].analysis = Null)
  /\ status = "complete" => (data # Null /\ data[1].analysis # Null)
  /\ status = "idle" => data = Null

\* C19: error is non-null only while status is idle.
C19_ErrorOnlyInIdle ==
  status \in {"generating", "analyzing", "complete"} => error = Null

\* C20: if from some point on the user issues no further event (and every
\* AI call settles), the machine eventually is in idle or complete and
\* remains there.
C20_EventuallySettled ==
  (<>[][lastEvent'.from = Null]_vars) => <>[](status \in {"idle", "complete"})

C20_Witness ==
  /\ lastEvent.kind = "generateRejected"
  /\ InFlight = {}
  /\ Len(calls) = 2
  /\ status = "idle"

\* C16: WidgetEngine dispatch is total over segment.format: mini selects
\* MiniWidget, stats StatsWidget, detailed DetailedWidget, and compact and
\* every other value select CompactWidget.
C16_DispatchTotal ==
  widget # Null
    => LET f == segment[1].format
           c == widget[1].component
       IN  /\ c \in {"MiniWidget", "StatsWidget", "DetailedWidget", "CompactWidget"}
           /\ f = "mini" <=> c = "MiniWidget"
           /\ f = "stats" <=> c = "StatsWidget"
           /\ f = "detailed" <=> c = "DetailedWidget"
           /\ f \notin {"mini", "stats", "detailed"} <=> c = "CompactWidget"

C16_Witness ==
  /\ widget # Null
  /\ segment[1].format = "timeline"
  /\ widget[1].component = "CompactWidget"

\* C17: a stats-format segment renders the 'unavailable' placeholder exactly
\* when stats is absent or empty, and otherwise one grid entry per stat in
\* the original order; a detailed-format segment renders the stat strip
\* exactly when stats is non-empty (one entry per stat, in order) and no
\* placeholder.
C17_StatsRendering ==
  widget # Null
    => LET st == segment[1].stats
           n == IF st = Null THEN 0 ELSE Len(st[1])
           w == widget[1]
       IN  /\ segment[1].format = "stats"
                => /\ w.placeholder <=> n = 0
                   /\ Len(w.grid) = n
                   /\ \A i \in 1..n : /\ w.grid[i].value = st[1][i].value
                                      /\ w.grid[i].label = st[1][i].label
           /\ segment[1].format = "detailed"
                => /\ w.strip # Null <=> n > 0
                   /\ "placeholder" \notin DOMAIN w
                   /\ n > 0 => /\ Len(w.strip[1]) = n
                               /\ \A i \in 1..n : /\ w.strip[1][i].value = st[1][i].value
                                                  /\ w.strip[1][i].label = st[1][i].label

C17_Witness ==
  /\ widget # Null
  /\ segment[1].format = "stats"
  /\ segment[1].stats = Some(<<>>)
  /\ widget[1].placeholder

====
